---- MODULE Spec2Model ----
(***************************************************************************)
(* A model of the row-partitioned distributed array of zap                 *)
(* (src/zap/spark/array.py, class ndarray_rdd) and of the lazy evaluation  *)
(* DAG of the executor backend (src/zappy/executor/dag.py).                *)
(*                                                                         *)
(* A local ndarray is a sequence of rows, a row a sequence of integers.    *)
(* An RDD is the sequence of its partitions, in partition order; each      *)
(* partition of an ndarray_rdd holds one numpy array (a sequence of rows). *)
(* RDD transformations are pure functions of the partitions, so the RDD is *)
(* modelled by the value collect() would return.  Python offsets are kept  *)
(* 0-based, as in the source; sequences are 1-based.                       *)
(***************************************************************************)
EXTENDS Integers, Sequences, FiniteSets, TLC

\* ------------------------------------------------------------------ bounds
MaxRows == 3
MaxCols == 2
MaxOps == 2
MaxParts == 2
MaxInputs == 2
MaxNodes == 3
MaxCalls == 1
MaxCopies == 2

\* ----------------------------------------------------------------- helpers
Min(a, b) == IF a <= b THEN a ELSE b

Max(a, b) == IF a >= b THEN a ELSE b

\* list(...): a function on 1..n as a sequence value, its elements computed
List(f) == f \o <<>>

\* builtins.sum over a sequence of integers
RECURSIVE SumSeq(_)
SumSeq(s) == IF s = <<>> THEN 0 ELSE Head(s) + SumSeq(Tail(s))

\* s[a:b] of Python: the elements at 0-based offsets a .. b-1, clipped
PySlice(s, a, b) ==
    LET lo == Min(Max(a, 0), Len(s))
        hi == Min(Max(b, lo), Len(s))
    IN  List([i \in 1..(hi - lo) |-> s[lo + i]])

\* numpy.concatenate / vstack of a sequence of sequences
RECURSIVE Concat(_)
Concat(ss) == IF ss = <<>> THEN <<>> ELSE Head(ss) \o Concat(Tail(ss))

\* the global row offset at which partition i (1-based) starts
OffsetOf(counts, i) == SumSeq(SubSeq(counts, 1, i - 1))

CeilDiv(a, b) == (a + b - 1) \div b

\* numpy.zeros((rows, cols))
Zeros(rows, cols) == List([r \in 1..rows |-> List([j \in 1..cols |-> 0])])

\* ------------------------------------------------- chunk / partition layout
\* the uniform layout: shape[0] // c full chunks and one short chunk
UniformRowCounts(rows, c) ==
    LET full == List([i \in 1..(rows \div c) |-> c])
        remaining == rows % c
    IN  IF remaining # 0 THEN Append(full, remaining) ELSE full

\* ndarray_dist.__init__: partition_row_counts=None means the uniform layout
ndarray_dist(shape, chunks, dtype, rdd) ==
    [shape |-> shape, chunks |-> chunks, dtype |-> dtype,
     partition_row_counts |-> UniformRowCounts(shape[1], chunks[1]),
     rdd |-> rdd]

\* ndarray_dist._read_chunks: chunk i is rows i*c .. (i+1)*c - 1 of arr
read_chunks(arr, chunks) ==
    List([i \in 1..CeilDiv(Len(arr), chunks[1]) |->
            PySlice(arr, (i - 1) * chunks[1], i * chunks[1])])

\* ndarray_rdd.from_ndarray
from_ndarray(arr, ncols, chunks, dtype) ==
    ndarray_dist(<<Len(arr), ncols>>, chunks, dtype, read_chunks(arr, chunks))

\* asndarray: collect the partitions and concatenate them in partition order
asndarray(a) == Concat(a.rdd)

\* ------------------------------------------------------ partition geometry
\* the entries of one old partition spanning the global rows g0 .. g1-1: one
\* per new chunk k it overlaps (the row at global offset g is in chunk
\* g // c), with the offsets of the overlap inside new chunk k
PartitionEntries(g0, g1, c) ==
    IF g1 <= g0 THEN <<>>
    ELSE LET k0 == g0 \div c
             k1 == (g1 - 1) \div c
         IN  List([m \in 1..(k1 - k0 + 1) |->
                LET k == k0 + m - 1
                IN  [new_index |-> k,
                     start |-> Max(g0, k * c) - k * c,
                     end |-> Min(g1, (k + 1) * c) - k * c]])

\* zap.zarr_util.calculate_partition_boundaries(chunks, partition_row_counts)
calculate_partition_boundaries(chunks, counts) ==
    LET c == chunks[1]
        total == SumSeq(counts)
    IN  [partition_row_ranges |->
            List([i \in 1..Len(counts) |->
                PartitionEntries(OffsetOf(counts, i),
                                 OffsetOf(counts, i) + counts[i], c)]),
         total_rows |-> total,
         new_num_partitions |-> CeilDiv(total, c)]

\* zap.zarr_util.extract_partial_chunks: pair = <<entries, partition array>>;
\* every entry is paired with the rows of the partition it stands for, the
\* entries taking the partition's rows consecutively
extract_partial_chunks(pair, chunks) ==
    LET entries == pair[1]
        arr == pair[2]
        taken(m) == SumSeq(List([q \in 1..(m - 1) |->
                               entries[q].end - entries[q].start]))
    IN  List([m \in 1..Len(entries) |->
            [key |-> entries[m].new_index,
             range |-> <<entries[m].start, entries[m].end>>,
             partial |-> PySlice(arr, taken(m),
                                 taken(m) + entries[m].end - entries[m].start)]])

\* rdd.zip: element i of one RDD paired with element i of the other (every
\* partition holds one element; the two RDDs have the same partition count)
Zip(a, b) == List([i \in 1..Min(Len(a), Len(b)) |-> <<a[i], b[i]>>])

\* arr[s:e] = partial (numpy clips the slice to the array)
SetRows(arr, s, e, partial) ==
    List([i \in 1..Len(arr) |->
        IF s < i /\ i <= Min(e, Len(arr)) /\ i - s <= Len(partial)
        THEN IF Len(partial[i - s]) = Len(arr[i])
             THEN partial[i - s]
             ELSE List([j \in 1..Len(arr[i]) |-> partial[i - s][1]])
        ELSE arr[i]])

\* Cells are integers wherever float64 holds them exactly.  The cells of an
\* int64 array may exceed 2^53; such an array has its cells written in two
\* limbs, <<hi, lo>> standing for hi * 2^30 + lo, with 0 <= lo < 2^30 and
\* hi < 2^24.

\* the float64 nearest to an int64 below 2^54: exact below 2^53, and above it
\* the nearest even integer, a tie going to the one with an even mantissa
float64_of_int64(v) ==
    IF v[1] < 2^23 \/ v[2] % 2 = 0 THEN v
    ELSE LET lo == IF (v[2] + 1) % 4 = 0 THEN v[2] + 1 ELSE v[2] - 1
         IN  IF lo = 2^30 THEN <<v[1] + 1, 0>> ELSE <<v[1], lo>>

\* the rows of a partial chunk of the given dtype as numpy stores them into
\* an array made by np.zeros(shape), which is float64
cast_to_float64(partial, dtype) ==
    IF dtype = "int64"
    THEN List([r \in 1..Len(partial) |->
            List([j \in 1..Len(partial[r]) |-> float64_of_int64(partial[r][j])])])
    ELSE partial

\* for ((new_start_offset, new_end_offset), partial_chunk) in pair[1]:
\*     arr[new_start_offset:new_end_offset] = partial_chunk
RECURSIVE WriteParts(_, _, _)
WriteParts(arr, values, dtype) ==
    IF values = <<>> THEN arr
    ELSE WriteParts(SetRows(arr, Head(values).range[1], Head(values).range[2],
                                cast_to_float64(Head(values).partial, dtype)),
                        Tail(values), dtype)

\* combine_partial_chunks inside _repartition_chunks: pair = [key, values];
\* dtype is the dtype of the partial chunks.  (The chunks of an int64 array
\* are float64 after the first repartitioning; casting them again changes
\* nothing.)
combine_partial_chunks(pair, chunks, total_rows, new_num_partitions, dtype) ==
    LET c == chunks[1]
        new_index == pair.key
        arr == IF new_index = new_num_partitions - 1 /\ total_rows % c # 0
               THEN Zeros(total_rows % c, chunks[2])
               ELSE Zeros(chunks[1], chunks[2])
    IN  WriteParts(arr, pair.values, dtype)

Reverse(s) == List([i \in 1..Len(s) |-> s[Len(s) + 1 - i]])

\* the elements of a finite set of integers in ascending order
RECURSIVE SortedSeq(_)
SortedSeq(S) ==
    IF S = {} THEN <<>>
    ELSE LET m == CHOOSE v \in S : \A w \in S : v <= w
         IN  <<m>> \o SortedSeq(S \ {m})

\* groupByKey(numPartitions, identity_partition_func): key k goes to
\* partition k % numPartitions; the values of a key arrive in an order the
\* shuffle chooses (rev: in partition order, or reversed)
groupByKey(records, numPartitions, rev) ==
    LET keys == {records[i].key : i \in 1..Len(records)}
        valuesOf(k) ==
            LET vs == SelectSeq(records, LAMBDA r : r.key = k)
            IN  IF rev THEN Reverse(vs) ELSE vs
    IN  List([p \in 1..numPartitions |->
            LET mine == SortedSeq({k \in keys : k % numPartitions = p - 1})
            IN  List([q \in 1..Len(mine) |->
                    [key |-> mine[q], values |-> valuesOf(mine[q])]])])

\* ndarray_dist._new: the object with the given attributes replaced
New(self, upd) ==
    [f \in DOMAIN self |-> IF f \in DOMAIN upd THEN upd[f] ELSE self[f]]

\* the boundaries computed for the array's present chunks, not the new ones
partition_boundaries_old_chunks(self, chunks) ==
    calculate_partition_boundaries(self.chunks, self.partition_row_counts)

\* calculate_partition_boundaries(chunks, self.partition_row_counts), as
\* _repartition_chunks calls it
partition_boundaries(self, chunks) ==
    calculate_partition_boundaries(chunks, self.partition_row_counts)

\* ndarray_rdd._repartition_chunks
repartition_chunks(self, chunks, rev) ==
    LET b == partition_boundaries(self, chunks)
        zipped == Zip(b.partition_row_ranges, self.rdd)
        extracted == Concat(List([i \in 1..Len(zipped) |->
                        extract_partial_chunks(zipped[i], chunks)]))
        grouped == groupByKey(extracted, b.new_num_partitions, rev)
        partitioned_rdd ==
            List([p \in 1..Len(grouped) |->
                Concat(List([q \in 1..Len(grouped[p]) |->
                    combine_partial_chunks(grouped[p][q], chunks,
                                           b.total_rows, b.new_num_partitions,
                                           self.dtype)]))])
    IN  New(self, [rdd |-> partitioned_rdd, chunks |-> chunks,
                   partition_row_counts |->
                       UniformRowCounts(self.shape[1], chunks[1])])

\* ----------------------------------------------------------- co-partition
\* An index array is [kind, v]: a boolean mask (kind "bool", v a sequence
\* of booleans) or an integer index array (kind "int", v a sequence of
\* 0-based row indices).

\* ndarray_dist._copartition(arr, partition_row_counts): the 1D array cut
\* into consecutive slices, one per partition, of that partition's row
\* count.  A length other than sum(partition_row_counts) is a
\* ShapeMismatchError.
copartition(item, counts) ==
    IF Len(item.v) # SumSeq(counts)
    THEN [err |-> "ShapeMismatchError", subsets |-> <<>>]
    ELSE [err |-> "none",
          subsets |->
            List([i \in 1..Len(counts) |->
                PySlice(item.v, OffsetOf(counts, i),
                        OffsetOf(counts, i) + counts[i])])]

\* ndarray_dist._partition_row_counts: the rows each slice selects
partition_row_counts_of(subsets, kind) ==
    List([i \in 1..Len(subsets) |->
        IF kind = "bool"
        THEN Len(SelectSeq(subsets[i], LAMBDA b : b))
        ELSE Len(subsets[i])])

\* numpy's arr[sub, :] for a boolean mask or an integer index array
NpIndexRows(arr, sub, kind) ==
    IF kind = "bool"
    THEN LET picked == SortedSeq({i \in 1..Min(Len(arr), Len(sub)) : sub[i]})
         IN  List([q \in 1..Len(picked) |-> arr[picked[q]]])
    ELSE List([q \in 1..Len(sub) |-> arr[sub[q] + 1]])

\* whether numpy accepts arr[sub, :]: a mask as long as the array, or
\* indices inside it
NpIndexOk(arr, sub, kind) ==
    IF kind = "bool"
    THEN Len(sub) = Len(arr)
    ELSE \A q \in 1..Len(sub) : sub[q] < Len(arr)

\* co-partitioning against the layout the chunks give, not the actual one
copartition_self_uniform(self, item) ==
    copartition(item, UniformRowCounts(self.shape[1], self.chunks[1]))

\* _row_subset that hands the index array to the backend before it is cut
row_subset_dispatch_first(self, item) ==
    LET cp == copartition(item, self.partition_row_counts)
        counts == partition_row_counts_of(cp.subsets, item.kind)
        zipped == Zip(self.rdd, cp.subsets)
    IN  IF cp.err # "none"
        THEN [err |-> cp.err, ndispatch |-> 1, out |-> self]
        ELSE IF \E i \in 1..Len(zipped) :
                    ~NpIndexOk(zipped[i][1], zipped[i][2], item.kind)
        THEN [err |-> "IndexError", ndispatch |-> 2, out |-> self]
        ELSE [err |-> "none", ndispatch |-> 2,
              out |-> New(self,
                 [rdd |-> List([i \in 1..Len(zipped) |->
                             NpIndexRows(zipped[i][1], zipped[i][2], item.kind)]),
                  shape |-> <<SumSeq(counts), self.shape[2]>>,
                  partition_row_counts |-> counts])]

\* _row_subset that keeps the old partition_row_counts
row_subset_stale_counts(self, item) ==
    LET cp == copartition(item, self.partition_row_counts)
        counts == partition_row_counts_of(cp.subsets, item.kind)
        zipped == Zip(self.rdd, cp.subsets)
    IN  IF cp.err # "none"
        THEN [err |-> cp.err, ndispatch |-> 0, out |-> self]
        ELSE IF \E i \in 1..Len(zipped) :
                    ~NpIndexOk(zipped[i][1], zipped[i][2], item.kind)
        THEN [err |-> "IndexError", ndispatch |-> 2, out |-> self]
        ELSE [err |-> "none", ndispatch |-> 2,
              out |-> New(self,
                 [rdd |-> List([i \in 1..Len(zipped) |->
                             NpIndexRows(zipped[i][1], zipped[i][2], item.kind)]),
                  shape |-> <<SumSeq(counts), self.shape[2]>>])]

\* self._copartition(subset, self.partition_row_counts)
copartition_self(self, item) == copartition(item, self.partition_row_counts)

\* ndarray_rdd._row_subset: [err, ndispatch, out]; ndispatch counts the
\* calls made on the backend (sc.parallelize, rdd.zip().map()).  The mapped
\* function runs when the RDD is computed; its IndexError is reported here.
row_subset(self, item) ==
    LET cp == copartition_self(self, item)
    IN  IF cp.err # "none"
        THEN [err |-> cp.err, ndispatch |-> 0, out |-> self]
        ELSE LET new_partition_row_counts ==
                     partition_row_counts_of(cp.subsets, item.kind)
                 new_shape == <<SumSeq(new_partition_row_counts), self.shape[2]>>
                 zipped == Zip(self.rdd, cp.subsets)
             IN  IF \E i \in 1..Len(zipped) :
                        ~NpIndexOk(zipped[i][1], zipped[i][2], item.kind)
                 THEN [err |-> "IndexError", ndispatch |-> 2, out |-> self]
                 ELSE [err |-> "none", ndispatch |-> 2,
                       out |-> New(self,
                         [rdd |-> List([i \in 1..Len(zipped) |->
                                     NpIndexRows(zipped[i][1], zipped[i][2],
                                                 item.kind)]),
                          shape |-> new_shape,
                          partition_row_counts |-> new_partition_row_counts])]

\* ndarray_rdd._boolean_array_index_dist, the selection from a 1D array:
\* [err, ndispatch, out] as for _row_subset
boolean_array_index_dist(self, item) ==
    LET cp == copartition_self(self, item)
    IN  IF cp.err # "none"
        THEN [err |-> cp.err, ndispatch |-> 0, out |-> self]
        ELSE LET new_partition_row_counts ==
                     partition_row_counts_of(cp.subsets, item.kind)
                 new_shape == <<SumSeq(new_partition_row_counts)>>
                 zipped == Zip(self.rdd, cp.subsets)
             IN  IF \E i \in 1..Len(zipped) :
                        ~NpIndexOk(zipped[i][1], zipped[i][2], item.kind)
                 THEN [err |-> "IndexError", ndispatch |-> 2, out |-> self]
                 ELSE [err |-> "none", ndispatch |-> 2,
                       out |-> New(self,
                         [rdd |-> List([i \in 1..Len(zipped) |->
                                     NpIndexRows(zipped[i][1], zipped[i][2],
                                                 item.kind)]),
                          shape |-> new_shape,
                          partition_row_counts |-> new_partition_row_counts])]

\* numpy's arr[:, sub] for a boolean mask or an integer index array
NpIndexCols(arr, sub, kind) ==
    List([r \in 1..Len(arr) |-> NpIndexRows(arr[r], sub, kind)])

\* builtins.sum(subset): the entries added up, True counting 1
builtins_sum(sub, kind) ==
    IF kind = "bool" THEN Len(SelectSeq(sub, LAMBDA b : b)) ELSE SumSeq(sub)

\* ndarray_rdd._column_subset for item = (slice(None), subset)
column_subset(self, item) ==
    LET new_num_cols == builtins_sum(item.v, item.kind)
        new_shape == <<self.shape[1], new_num_cols>>
        new_chunks == <<self.chunks[1], new_num_cols>>
    IN  New(self, [rdd |-> List([i \in 1..Len(self.rdd) |->
                              NpIndexCols(self.rdd[i], item.v, item.kind)]),
                   shape |-> new_shape,
                   chunks |-> new_chunks])

\* ndarray_rdd._column_subset for item = (slice(None), np.newaxis), on a
\* 1D array: every element becomes a row of one column
column_newaxis(self) ==
    New(self, [rdd |-> List([i \in 1..Len(self.rdd) |->
                          List([r \in 1..Len(self.rdd[i]) |->
                                  <<self.rdd[i][r]>>])]),
               shape |-> <<self.shape[1], 1>>,
               chunks |-> <<self.chunks[1], 1>>])

\* -------------------------------------------------------------- reductions
\* the number of columns the partitions of a 2D array hold (that of
\* shape when no partition has a row)
DataCols(self) ==
    LET rows == Concat(self.rdd)
    IN  IF rows = <<>> THEN self.shape[2] ELSE Len(rows[1])

\* numpy.sum(a, axis=0) of a 2D array (or of a list of 1D arrays) of ncols
\* columns; an array without rows sums to zeros
np_sum_axis0(a, ncols) ==
    List([j \in 1..ncols |-> SumSeq(List([r \in 1..Len(a) |-> a[r][j]]))])

RECURSIVE GCD(_, _)
GCD(a, b) == IF b = 0 THEN a ELSE GCD(b, a % b)

\* a / b as a fraction in lowest terms <<numerator, denominator>>
\* (0 / 0, numpy's nan, is <<0, 0>>)
Div(a, b) ==
    LET g == GCD(IF a < 0 THEN -a ELSE a, b)
    IN  IF g = 0 THEN <<0, 0>> ELSE <<a \div g, b \div g>>

\* the result array of an axis-0 reduction: one partition holding result,
\* with shape, chunks and partition_row_counts all result.shape (the
\* empty tuple for the scalar a 1D array reduces to)
ReducedArray(self, result, result_shape) ==
    New(self, [rdd |-> <<result>>, shape |-> result_shape,
               chunks |-> result_shape,
               partition_row_counts |-> result_shape])

\* ndarray_rdd._calc_func_axis_distributive(np.sum, 0)
calc_func_axis_distributive(self) ==
    IF Len(self.shape) = 1
    THEN LET per_chunk_result == List([i \in 1..Len(self.rdd) |->
                                     SumSeq(self.rdd[i])])
         IN  ReducedArray(self, SumSeq(per_chunk_result), <<>>)
    ELSE LET ncols == DataCols(self)
             per_chunk_result == List([i \in 1..Len(self.rdd) |->
                                     np_sum_axis0(self.rdd[i], ncols)])
             result == np_sum_axis0(per_chunk_result, ncols)
         IN  ReducedArray(self, result, <<Len(result)>>)

\* mean that divides by the number of partitions
mean_count_partitions(self) ==
    IF Len(self.shape) = 1
    THEN ReducedArray(self, Div(SumSeq(Concat(self.rdd)), Len(self.rdd)),
                      <<>>)
    ELSE LET ncols == DataCols(self)
             sums == np_sum_axis0(List([i \in 1..Len(self.rdd) |->
                         np_sum_axis0(self.rdd[i], ncols)]), ncols)
         IN  ReducedArray(self, List([j \in 1..Len(sums) |->
                                        Div(sums[j], Len(self.rdd))]),
                          <<Len(sums)>>)

\* ndarray_rdd.mean(axis=0)
mean(self) ==
    IF Len(self.shape) = 1
    THEN LET result == List([i \in 1..Len(self.rdd) |->
                           <<Len(self.rdd[i]), SumSeq(self.rdd[i])>>])
             total_count == SumSeq(List([i \in 1..Len(result) |->
                                           result[i][1]]))
             total == SumSeq(List([i \in 1..Len(result) |-> result[i][2]]))
         IN  ReducedArray(self, Div(total, total_count), <<>>)
    ELSE LET ncols == DataCols(self)
             result == List([i \in 1..Len(self.rdd) |->
                           <<Len(self.rdd[i]),
                             np_sum_axis0(self.rdd[i], ncols)>>])
             total_count == SumSeq(List([i \in 1..Len(result) |->
                                           result[i][1]]))
             sums == np_sum_axis0(List([i \in 1..Len(result) |->
                                          result[i][2]]), ncols)
         IN  ReducedArray(self, List([j \in 1..Len(sums) |->
                                        Div(sums[j], total_count)]),
                          <<Len(sums)>>)

\* numpy.sum(a, axis=1): the sum of every row
np_sum_axis1(a) == List([r \in 1..Len(a) |-> SumSeq(a[r])])

\* ndarray_rdd._calc_func_axis_rowwise(np.sum, 1): a 1D array with the
\* partitions of self
calc_func_axis_rowwise(self) ==
    New(self, [rdd |-> List([i \in 1..Len(self.rdd) |->
                           np_sum_axis1(self.rdd[i])]),
               shape |-> <<self.shape[1]>>,
               chunks |-> <<self.chunks[1]>>])

\* ------------------------------------------------------- elementwise ufuncs
\* the functions mapped over the partitions: x + 1 and x.astype(dtype);
\* a numpy bool is 0 or 1
ApplyFunc(func, v) ==
    CASE func = "add1" -> v + 1
      [] func = "sub1" -> v - 1
      [] func = "astype_bool" -> IF v # 0 THEN 1 ELSE 0
      [] func = "times100" -> 100 * v
      [] OTHER -> v

\* func applied to every cell of a local array
NpMap(func, arr) ==
    List([r \in 1..Len(arr) |->
        List([j \in 1..Len(arr[r]) |-> ApplyFunc(func, arr[r][j])])])

\* rdd.map(lambda x: func(x))
RddMap(func, rdd) == List([i \in 1..Len(rdd) |-> NpMap(func, rdd[i])])

\* _unary_ufunc that does not pass copy on to _new
unary_ufunc_always_copy(self, func, dtype, copy) ==
    [obj |-> New(self, [rdd |-> RddMap(func, self.rdd), dtype |-> dtype]),
     copy |-> TRUE]

\* ndarray_rdd._unary_ufunc: [obj, copy], the attributes _new sets and
\* whether _new copies the object (copy) or updates self (not copy)
unary_ufunc(self, func, dtype, copy) ==
    [obj |-> New(self, [rdd |-> RddMap(func, self.rdd), dtype |-> dtype]),
     copy |-> copy]

\* ndarray_rdd._binary_ufunc_broadcast_single_row_or_value with other = 1
binary_ufunc_broadcast_single_row_or_value(self, func, dtype, copy) ==
    [obj |-> New(self, [rdd |-> RddMap(func, self.rdd), dtype |-> dtype]),
     copy |-> copy]

\* numpy's a + b for two arrays of ndim dimensions with the same number of
\* rows; a column (n, 1) is broadcast along the columns of a
np_add(a, b, ndim) ==
    IF ndim = 1
    THEN List([r \in 1..Len(a) |-> a[r] + b[r]])
    ELSE List([r \in 1..Len(a) |->
            List([j \in 1..(IF Len(a[r]) = 1 THEN Len(b[r]) ELSE Len(a[r])) |->
                a[r][IF Len(a[r]) = 1 THEN 1 ELSE j]
                    + b[r][IF Len(b[r]) = 1 THEN 1 ELSE j]])])

\* whether numpy can broadcast the rows of a and b against each other
NpAddOk(a, b, ndim) ==
    ndim = 1 \/ \A r \in 1..Len(a) :
                   Len(a[r]) = Len(b[r]) \/ Len(a[r]) = 1 \/ Len(b[r]) = 1

\* ndarray_rdd._binary_ufunc_same_shape with func = np.add:
\* [err, notimplemented, ndispatch, materialized, obj, copy].  ndispatch
\* counts the calls made on the backend, materialized whether other was
\* collected; other.shape[1] of a 1D array is an IndexError
binary_ufunc_same_shape(self, other, dtype, copy) ==
    LET ndim == Len(self.shape)
        none == [err |-> "none", notimplemented |-> FALSE, ndispatch |-> 0,
                 materialized |-> FALSE, obj |-> self, copy |-> copy]
    IN  IF self.partition_row_counts = other.partition_row_counts
        THEN LET zipped == Zip(self.rdd, other.rdd)
             IN  IF \E i \in 1..Len(zipped) :
                        ~NpAddOk(zipped[i][1], zipped[i][2], ndim)
                 THEN [none EXCEPT !.err = "ValueError", !.ndispatch = 1]
                 ELSE [none EXCEPT
                    !.ndispatch = 1,
                    !.obj = New(self,
                       [rdd |-> List([i \in 1..Len(zipped) |->
                                   np_add(zipped[i][1], zipped[i][2], ndim)]),
                        dtype |-> dtype])]
        ELSE IF Len(other.shape) < 2
        THEN [none EXCEPT !.err = "IndexError"]
        ELSE IF other.shape[2] = 1
        THEN LET cp == copartition([kind |-> "array", v |-> asndarray(other)],
                                   self.partition_row_counts)
                 zipped == Zip(self.rdd, cp.subsets)
             IN  IF cp.err # "none"
                 THEN [none EXCEPT !.err = cp.err, !.materialized = TRUE,
                                   !.ndispatch = 1]
                 ELSE [none EXCEPT
                         !.materialized = TRUE,
                         !.ndispatch = 3,
                         !.obj = New(self,
                            [rdd |-> List([i \in 1..Len(zipped) |->
                                        np_add(zipped[i][1], zipped[i][2], ndim)]),
                             dtype |-> dtype])]
        ELSE [none EXCEPT !.notimplemented = TRUE]

\* the dtype numpy gives arr + 1
AddResultType(dtype) == IF dtype = "bool" THEN "int64" ELSE dtype

DTypes == {"float64", "int64", "bool"}

\* ------------------------------------------------------------------- state
VARIABLES
    x,        \* the local numpy array the distributed array stands for
    heap,     \* object id -> <<>> (free) or <<the ndarray_rdd object>>
    xd,       \* the caller's handle: an object id
    alias,    \* a second handle taken earlier, or "none"
    lastop,   \* the last operation: its name, arguments and outcome
    nops      \* operations applied so far

arrvars == <<x, heap, xd, alias, lastop, nops>>

\* the lazy DAG (src/zappy/executor/dag.py)
VARIABLES
    num_partitions,       \* DAG.num_partitions
    partitioned_inputs,   \* DAG.partitioned_inputs
    nodes,                \* the Input and LazyVal objects built so far
    job,                  \* <<>> or <<the executor.map call in progress>>
    ncalls,               \* executor.map calls made so far
    daglast               \* the last DAG operation and its outcome

dagvars == <<num_partitions, partitioned_inputs, nodes, job, ncalls, daglast>>

\* the chunked store written by to_zarr
VARIABLES
    zstore,   \* <<>> or <<the store: its shape, chunks and rows>>
    zjob      \* the foreach(write_chunk_fn) in progress or last finished

zvars == <<zstore, zjob>>

vars == <<arrvars, dagvars, zvars>>

ObjIds == {"o1", "o2", "o3"}

Alloc(h) == CHOOSE o \in ObjIds : h[o] = <<>>

\* the objects still referenced by a handle stay; the others are collected
Collect(h, handles) == [o \in ObjIds |-> IF o \in handles THEN h[o] ELSE <<>>]

NoItem == [kind |-> "none", v |-> <<>>]

NoOp == [op |-> "init", c |-> 0, item |-> NoItem, rev |-> FALSE,
         dtype |-> "", copy |-> TRUE, prev |-> <<>>, prev_xd |-> "none",
         ret |-> <<>>, err |-> "none", ndispatch |-> 0, other |-> <<>>,
         notimplemented |-> FALSE, materialized |-> FALSE]

Self == heap[xd][1]

\* np.arange(1, rows * ncols + 1).reshape(rows, ncols): every cell distinct
\* and nonzero, so a lost, duplicated, moved or zero-filled row shows
Labelled(rows, ncols) ==
    List([r \in 1..rows |-> List([j \in 1..ncols |-> (r - 1) * ncols + j])])

\* np.arange(rows * ncols).reshape(rows, ncols): as above, from 0
Arange(rows, ncols) == NpMap("sub1", Labelled(rows, ncols))

MaxChunk == MaxRows + 1

\* the index arrays tried on an array of `rows` rows: every mask of the right
\* length, and masks one shorter and one longer
BoolMasks(rows) ==
    {List([i \in 1..rows |-> i \in S]) : S \in SUBSET (1..rows)}
        \cup {List([i \in 1..n |-> TRUE]) :
                 n \in {rows - 1, rows + 1} \cap (0..MaxChunk)}

\* sorted, duplicate-free row indices: all the rows, or all but one
IntIndexes(rows) ==
    {SortedSeq(S) : S \in {R \in SUBSET (0..(rows - 1)) :
                              Cardinality(R) >= rows - 1}}

Init ==
    /\ \E rows \in 1..MaxRows, ncols \in 1..MaxCols, c \in 1..MaxChunk :
        /\ x = Labelled(rows, ncols)
        /\ heap = [o \in ObjIds |->
                     IF o = "o1"
                     THEN <<from_ndarray(Labelled(rows, ncols), ncols,
                                         <<c, ncols>>, "float64")>>
                     ELSE <<>>]
    /\ xd = "o1"
    /\ alias = "none"
    /\ lastop = NoOp
    /\ nops = 0

\* xd = xd.<op>(...) for an operation that returns a new object
Rebind(out) ==
    LET o == Alloc(heap)
    IN  /\ heap' = Collect([heap EXCEPT ![o] = <<out>>], {o, alias})
        /\ xd' = o

\* xd = xd._repartition_chunks((c, ncols))
Repartition(c, rev) ==
    /\ nops < MaxOps
    /\ Len(Self.shape) = 2
    /\ Self.shape[1] >= 1
    /\ IF DataCols(Self) = Self.shape[2]
       THEN /\ Rebind(repartition_chunks(Self, <<c, Self.shape[2]>>, rev))
            /\ lastop' = [NoOp EXCEPT !.op = "repartition", !.c = c,
                                      !.rev = rev, !.prev = <<Self>>]
            /\ UNCHANGED x
       ELSE IF DataCols(Self) = 1
       THEN \* arr[start:end] = partial_chunk broadcasts the one column
            LET out == repartition_chunks(Self, <<c, Self.shape[2]>>, rev)
            IN  /\ Rebind(out)
                /\ lastop' = [NoOp EXCEPT !.op = "repartition", !.c = c,
                                          !.rev = rev, !.prev = <<Self>>]
                /\ x' = asndarray(out)
       ELSE \* arr[start:end] = partial_chunk raises in the backend
            /\ lastop' = [NoOp EXCEPT !.op = "repartition", !.c = c,
                                      !.rev = rev, !.prev = <<Self>>,
                                      !.err = "ValueError"]
            /\ UNCHANGED <<x, heap, xd>>
    /\ nops' = nops + 1
    /\ UNCHANGED alias
    /\ UNCHANGED <<dagvars, zvars>>

\* xd = xd[item, :]
RowSubset(item) ==
    /\ nops < MaxOps
    /\ Len(Self.shape) = 2
    /\ LET r == row_subset(Self, item)
       IN  /\ lastop' = [NoOp EXCEPT !.op = "row_subset", !.item = item,
                                     !.prev = <<Self>>, !.err = r.err,
                                     !.ndispatch = r.ndispatch]
           /\ IF r.err = "none"
              THEN /\ Rebind(r.out)
                   /\ x' = NpIndexRows(x, item.v, item.kind)
              ELSE UNCHANGED <<heap, xd, x>>
    /\ nops' = nops + 1
    /\ UNCHANGED alias
    /\ UNCHANGED <<dagvars, zvars>>

\* xd.sum(axis=0)
SumCols ==
    /\ nops < MaxOps
    /\ lastop' = [NoOp EXCEPT !.op = "sum", !.prev = <<Self>>,
                              !.ret = <<calc_func_axis_distributive(Self)>>]
    /\ nops' = nops + 1
    /\ UNCHANGED <<x, heap, xd, alias>>
    /\ UNCHANGED <<dagvars, zvars>>

\* xd.mean(axis=0)
MeanCols ==
    /\ nops < MaxOps
    /\ lastop' = [NoOp EXCEPT !.op = "mean", !.prev = <<Self>>,
                              !.ret = <<mean(Self)>>]
    /\ nops' = nops + 1
    /\ UNCHANGED <<x, heap, xd, alias>>
    /\ UNCHANGED <<dagvars, zvars>>

\* xd = xd.sum(axis=1)
SumRows ==
    /\ nops < MaxOps
    /\ Len(Self.shape) = 2
    /\ Rebind(calc_func_axis_rowwise(Self))
    /\ x' = np_sum_axis1(x)
    /\ lastop' = [NoOp EXCEPT !.op = "sum_rows", !.prev = <<Self>>]
    /\ nops' = nops + 1
    /\ UNCHANGED alias
    /\ UNCHANGED <<dagvars, zvars>>

\* xd = xd[mask] for a 1D array xd
BoolIndex(item) ==
    /\ nops < MaxOps
    /\ Len(Self.shape) = 1
    /\ LET r == boolean_array_index_dist(Self, item)
       IN  /\ lastop' = [NoOp EXCEPT !.op = "bool_index", !.item = item,
                                     !.prev = <<Self>>, !.err = r.err,
                                     !.ndispatch = r.ndispatch]
           /\ IF r.err = "none"
              THEN /\ Rebind(r.out)
                   /\ x' = NpIndexRows(x, item.v, item.kind)
              ELSE UNCHANGED <<heap, xd, x>>
    /\ nops' = nops + 1
    /\ UNCHANGED alias
    /\ UNCHANGED <<dagvars, zvars>>

\* boolean column masks, and sorted non-empty integer column indexes
ColMasks(ncols) == {List([j \in 1..ncols |-> j \in S]) : S \in SUBSET (1..ncols)}

ColIndexes(ncols) == {SortedSeq(S) : S \in (SUBSET (0..(ncols - 1))) \ {{}}}

\* xd = xd[:, subset]
ColumnSubset(item) ==
    /\ nops < MaxOps
    /\ Len(Self.shape) = 2
    /\ Rebind(column_subset(Self, item))
    /\ x' = NpIndexCols(x, item.v, item.kind)
    /\ lastop' = [NoOp EXCEPT !.op = "column_subset", !.item = item,
                              !.prev = <<Self>>]
    /\ nops' = nops + 1
    /\ UNCHANGED alias
    /\ UNCHANGED <<dagvars, zvars>>

\* xd = xd[:, np.newaxis] for a 1D array xd
NewAxis ==
    /\ nops < MaxOps
    /\ Len(Self.shape) = 1
    /\ Rebind(column_newaxis(Self))
    /\ x' = List([r \in 1..Len(x) |-> <<x[r]>>])
    /\ lastop' = [NoOp EXCEPT !.op = "newaxis", !.prev = <<Self>>]
    /\ nops' = nops + 1
    /\ UNCHANGED alias
    /\ UNCHANGED <<dagvars, zvars>>

\* the second operand's cells: multiples of 100, every cell distinct
OtherData(rows, ncols) == NpMap("times100", Labelled(rows, ncols))

\* a distributed array of the shape of xd, partitioned by row chunks of c:
\* from_ndarray(sc, y, (c, ncols)), and its sum(axis=1) when xd is 1D
OtherArray(self, c) ==
    IF Len(self.shape) = 2
    THEN from_ndarray(OtherData(self.shape[1], self.shape[2]), self.shape[2],
                      <<c, self.shape[2]>>, "float64")
    ELSE calc_func_axis_rowwise(
             from_ndarray(OtherData(self.shape[1], 1), 1, <<c, 1>>, "float64"))

\* xd = xd + other, by _binary_ufunc_same_shape, for another distributed
\* array of the same shape
AddArrays(c) ==
    /\ nops < MaxOps
    /\ LET other == OtherArray(Self, c)
           r == binary_ufunc_same_shape(Self, other, Self.dtype, TRUE)
       IN  /\ lastop' = [NoOp EXCEPT !.op = "add_arrays", !.c = c,
                                     !.prev = <<Self>>, !.other = <<other>>,
                                     !.err = r.err,
                                     !.ndispatch = r.ndispatch,
                                     !.notimplemented = r.notimplemented,
                                     !.materialized = r.materialized]
           /\ IF r.err = "none" /\ ~r.notimplemented
              THEN /\ Rebind(r.obj)
                   /\ x' = np_add(x, asndarray(other), Len(Self.shape))
              ELSE UNCHANGED <<heap, xd, x>>
    /\ nops' = nops + 1
    /\ UNCHANGED alias
    /\ UNCHANGED <<dagvars, zvars>>

Next ==
    \/ \E c \in 1..MaxChunk, rev \in BOOLEAN : Repartition(c, rev)
    \/ \E m \in BoolMasks(Len(x)) : RowSubset([kind |-> "bool", v |-> m])
    \/ \E ix \in IntIndexes(Len(x)) : RowSubset([kind |-> "int", v |-> ix])
    \/ SumCols
    \/ MeanCols
    \/ SumRows
    \/ \E m \in BoolMasks(Len(x)) : BoolIndex([kind |-> "bool", v |-> m])

\* np.arange(...).reshape(rows, ncols) + 2**53 as int64: the cells
\* 2^53 + 1, 2^53 + 2, ..., in limbs
Wide(rows, ncols) ==
    List([r \in 1..rows |->
        List([j \in 1..ncols |-> <<2^23, (r - 1) * ncols + j>>])])

\* from_ndarray(sc, x, chunks) for an int64 array x of large cells
InitInt64 ==
    /\ \E rows \in 1..MaxRows, ncols \in 1..MaxCols, c \in 1..MaxChunk :
        /\ x = Wide(rows, ncols)
        /\ heap = [o \in ObjIds |->
                     IF o = "o1"
                     THEN <<from_ndarray(Wide(rows, ncols), ncols,
                                         <<c, ncols>>, "int64")>>
                     ELSE <<>>]
    /\ xd = "o1"
    /\ alias = "none"
    /\ lastop = NoOp
    /\ nops = 0

NextInt64 ==
    \E c \in 1..MaxChunk, rev \in BOOLEAN : Repartition(c, rev)

\* ------------------------------------------------- in-place and copying ops
\* ndarray_dist._new(copy=...): copy=False updates the object xd names and
\* returns it; otherwise a new object is returned and the caller binds it
Store(res) ==
    IF res.copy
    THEN Rebind(res.obj)
    ELSE /\ heap' = [heap EXCEPT ![xd] = <<res.obj>>]
         /\ xd' = xd

InitInplace ==
    /\ \E rows \in 1..MaxRows, ncols \in 1..MaxCols, c \in 1..MaxChunk :
        /\ x = Arange(rows, ncols)
        /\ heap = [o \in ObjIds |->
                     IF o = "o1"
                     THEN <<from_ndarray(Arange(rows, ncols), ncols,
                                         <<c, ncols>>, "float64")>>
                     ELSE <<>>]
    /\ xd = "o1"
    /\ alias = "o1"
    /\ lastop = NoOp
    /\ nops = 0

\* xd += 1 (copy = FALSE), xd = xd + 1 (copy = TRUE)
AddOne(copy) ==
    /\ nops < MaxOps
    /\ Store(binary_ufunc_broadcast_single_row_or_value(
                 Self, "add1", AddResultType(Self.dtype), copy))
    /\ x' = NpMap("add1", x)
    /\ lastop' = [NoOp EXCEPT !.op = "add1", !.copy = copy,
                              !.dtype = AddResultType(Self.dtype),
                              !.prev = <<Self>>, !.prev_xd = xd]
    /\ nops' = nops + 1
    /\ UNCHANGED alias
    /\ UNCHANGED <<dagvars, zvars>>

\* xd = xd.astype(dtype, copy=copy)
Astype(dtype, copy) ==
    /\ nops < MaxOps
    /\ Store(unary_ufunc(Self, "astype_" \o dtype, dtype, copy))
    /\ x' = NpMap("astype_" \o dtype, x)
    /\ lastop' = [NoOp EXCEPT !.op = "astype", !.copy = copy, !.dtype = dtype,
                              !.prev = <<Self>>, !.prev_xd = xd]
    /\ nops' = nops + 1
    /\ UNCHANGED alias
    /\ UNCHANGED <<dagvars, zvars>>

\* alias = xd
TakeAlias ==
    /\ alias # xd
    /\ alias' = xd
    /\ heap' = Collect(heap, {xd})
    /\ UNCHANGED <<x, xd, lastop, nops>>
    /\ UNCHANGED <<dagvars, zvars>>

NextInplace ==
    \/ \E copy \in BOOLEAN : AddOne(copy)
    \/ \E dtype \in DTypes, copy \in BOOLEAN : Astype(dtype, copy)
    \/ TakeAlias

\* every array operation, in any order
NextOps ==
    \/ \E c \in 1..MaxChunk : Repartition(c, FALSE)
    \/ \E m \in BoolMasks(Len(x)) : RowSubset([kind |-> "bool", v |-> m])
    \/ \E m \in BoolMasks(Len(x)) : BoolIndex([kind |-> "bool", v |-> m])
    \/ SumCols
    \/ MeanCols
    \/ SumRows
    \/ \E c \in 1..MaxChunk : AddArrays(c)
    \/ Len(Self.shape) = 2 /\ AddOne(TRUE)
    \/ Len(Self.shape) = 2 /\ \E m \in ColMasks(DataCols(Self)) :
           ColumnSubset([kind |-> "bool", v |-> m])
    \/ Len(Self.shape) = 2 /\ \E ix \in ColIndexes(DataCols(Self)) :
           ColumnSubset([kind |-> "int", v |-> ix])
    \/ NewAxis


\* ============================================================ persistence
\* zarr.open(store, mode="w", shape, chunks): a new array of the fill value 0
zarr_open_w(shape, chunks) ==
    [shape |-> shape, chunks |-> chunks, rows |-> Zeros(shape[1], shape[2])]

\* index_partitions that loses the partition index
index_partitions_zero(index, values) == <<0, values[1]>>

\* index_partitions inside _write_zarr: (index, the partition's one array)
index_partitions(index, values) == <<index, values[1]>>

\* ndarray_rdd._write_zarr: the store opened with self.shape, and the
\* (index, array) pairs foreach hands to write_chunk_fn
write_zarr(self, chunks) ==
    [store |-> zarr_open_w(self.shape, chunks),
     tasks |-> List([i \in 1..Len(self.rdd) |->
                       index_partitions(i - 1, <<self.rdd[i]>>)])]

\* z[lo:hi] = value of zarr: the slice is clipped to the store, and a value
\* of another length than the slice is a ValueError
zarr_setitem(z, lo, hi, value) ==
    LET a == Min(lo, z.shape[1])
        b == Min(hi, z.shape[1])
    IN  IF b - a # Len(value)
        THEN [err |-> "ValueError", store |-> z]
        ELSE [err |-> "none",
              store |-> [z EXCEPT !.rows = SetRows(z.rows, a, b, value)]]

\* ndarray_dist._write_chunk, one replica: replica k of partition `index` is
\* written at chunk index k * original_chunk_count + index
write_chunk(z, indexed_row, k, original_chunk_count) ==
    LET chunk_index == k * original_chunk_count + indexed_row[1]
        chunk_size == z.chunks[1]
    IN  zarr_setitem(z, chunk_size * chunk_index, chunk_size * (chunk_index + 1),
                     indexed_row[2])

\* ndarray_dist.to_zarr(store, chunks, ncopies): the store is created for
\* ncopies times the rows of the array
to_zarr(self, chunks, ncopies) ==
    write_zarr(New(self, [shape |-> <<ncopies * self.shape[1], self.shape[2]>>]),
               chunks)

NoJob == [active |-> FALSE, ncopies |-> 0, tasks |-> <<>>, written |-> {},
          err |-> "none"]

InitZarr ==
    /\ zstore = <<>>
    /\ zjob = NoJob

\* xd.to_zarr(store, xd.chunks, ncopies)
ToZarr(ncopies) ==
    /\ ~zjob.active
    /\ nops < MaxOps
    /\ LET w == to_zarr(Self, Self.chunks, ncopies)
       IN  /\ zstore' = <<w.store>>
           /\ zjob' = [NoJob EXCEPT !.active = TRUE, !.ncopies = ncopies,
                                    !.tasks = w.tasks]
    /\ lastop' = [NoOp EXCEPT !.op = "to_zarr", !.c = Self.chunks[1],
                              !.prev = <<Self>>]
    /\ nops' = nops + 1
    /\ UNCHANGED <<x, heap, xd, alias, dagvars>>

\* one (partition, replica) write; the writes run in any order, and a write
\* may run again
WriteChunk(p, k) ==
    /\ zjob.active
    /\ p \in 1..Len(zjob.tasks)
    /\ k \in 0..(zjob.ncopies - 1)
    /\ LET r == write_chunk(zstore[1], zjob.tasks[p], k, Len(zjob.tasks))
       IN  /\ zstore' = <<r.store>>
           /\ zjob' = [zjob EXCEPT !.written = @ \cup {<<p, k>>},
                                   !.err = IF r.err # "none" THEN r.err ELSE @]
    /\ UNCHANGED <<arrvars, dagvars>>

\* every (partition, replica) write of the job has run
AllWritten ==
    zjob.written = (1..Len(zjob.tasks)) \X (0..(zjob.ncopies - 1))

\* foreach returns
FinishZarr ==
    /\ zjob.active
    /\ AllWritten
    /\ zjob' = [zjob EXCEPT !.active = FALSE]
    /\ UNCHANGED <<arrvars, dagvars, zstore>>

NextZarr ==
    \/ \E c \in 1..MaxChunk : ~zjob.active /\ Repartition(c, FALSE)
    \/ \E ncopies \in 1..MaxCopies : ToZarr(ncopies)
    \/ \E p \in 1..MaxRows, k \in 0..(MaxCopies - 1) : WriteChunk(p, k)
    \/ FinishZarr

\* ============================================================ the lazy DAG
\* src/zappy/executor/dag.py.  A node is an Input (its registration index)
\* or a LazyVal (a function and its parent nodes); nodes[n] is node n, and a
\* node's parents were built before it.  The functions recorded are "inc"
\* (one argument, v + 1) and "sub" (two arguments, a - b).
\* unpack_args(f)(x) for the recorded functions
unpack_args(func, args) ==
    CASE func = "inc" -> args[1] + 1
      [] func = "sub" -> args[1] - args[2]
      [] OTHER -> args[1]

Arity(func) == IF func = "sub" THEN 2 ELSE 1

\* Input.compute that ignores its index
Input_compute_first(node, input_values) == input_values[1]

\* Input.compute
Input_compute(node, input_values) == input_values[node.index + 1]

\* LazyVal.compute (and Input.compute for an Input node)
RECURSIVE NodeCompute(_, _, _)
NodeCompute(ns, n, input_values) ==
    IF ns[n].kind = "Input"
    THEN Input_compute(ns[n], input_values)
    ELSE LET computed_inputs ==
                 List([q \in 1..Len(ns[n].inputs) |->
                     NodeCompute(ns, ns[n].inputs[q], input_values)])
         IN  unpack_args(ns[n].func, computed_inputs)

\* compute that keeps the value of a node it has computed: node t runs
\* once if it is in the graph of n at all
RECURSIVE NodeCalls_memoized(_, _, _)
NodeCalls_memoized(ns, n, t) ==
    IF n = t THEN 1
    ELSE IF ns[n].kind = "Input" THEN 0
    ELSE IF \E q \in 1..Len(ns[n].inputs) :
                NodeCalls_memoized(ns, ns[n].inputs[q], t) > 0
         THEN 1 ELSE 0

\* the number of times node.compute runs for node t during one
\* ns[n].compute(input_values): once for n itself, and once more for
\* every time the comprehension over self.inputs reaches t
RECURSIVE NodeCalls(_, _, _)
NodeCalls(ns, n, t) ==
    (IF n = t THEN 1 ELSE 0)
    + (IF ns[n].kind = "Input" THEN 0
       ELSE SumSeq(List([q \in 1..Len(ns[n].inputs) |->
                        NodeCalls(ns, ns[n].inputs[q], t)])))

\* DAG.add_input without the partition-count assertion
add_input_unchecked(num, inputs, partitioned_input) ==
    IF Len(partitioned_input) = 0
    THEN [err |-> "AssertionError", num_partitions |-> num,
          partitioned_inputs |-> inputs, index |-> -1]
    ELSE [err |-> "none",
          num_partitions |-> IF num = 0 THEN Len(partitioned_input) ELSE num,
          partitioned_inputs |-> Append(inputs, partitioned_input),
          index |-> Len(inputs)]

\* DAG.add_input: [err, num_partitions, partitioned_inputs, index]
add_input(num, inputs, partitioned_input) ==
    IF Len(partitioned_input) = 0
    THEN [err |-> "AssertionError", num_partitions |-> num,
          partitioned_inputs |-> inputs, index |-> -1]
    ELSE IF num # 0 /\ num # Len(partitioned_input)
    THEN [err |-> "AssertionError", num_partitions |-> num,
          partitioned_inputs |-> inputs, index |-> -1]
    ELSE [err |-> "none",
          num_partitions |-> IF num = 0 THEN Len(partitioned_input) ELSE num,
          partitioned_inputs |-> Append(inputs, partitioned_input),
          index |-> Len(inputs)]

\* zip(*seqs): tuple i holds element i of every sequence; as many tuples as
\* the shortest sequence has elements, none for no sequence
PyZip(seqs) ==
    IF seqs = <<>> THEN <<>>
    ELSE LET n == CHOOSE m \in {Len(seqs[k]) : k \in 1..Len(seqs)} :
                      \A k \in 1..Len(seqs) : m <= Len(seqs[k])
         IN  List([i \in 1..n |-> List([k \in 1..Len(seqs) |-> seqs[k][i]])])

\* DAG._get_zipped_inputs
get_zipped_inputs(inputs) == PyZip(inputs)

NoDagOp == [op |-> "init", err |-> "none", output |-> 0, results |-> <<>>,
            arglen |-> 0, prev_num |-> 0, prev_inputs |-> <<>>,
            prev_calls |-> 0, calls |-> <<>>]

InitDag ==
    /\ num_partitions = 0
    /\ partitioned_inputs = <<>>
    /\ nodes = <<>>
    /\ job = <<>>
    /\ ncalls = 0
    /\ daglast = NoDagOp

\* the value held by partition i (0-based) of a collection tagged t: every
\* partition of every collection is distinct
Collection(t, n) == List([i \in 1..n |-> t * (MaxParts + 2) + i])

\* dag.add_input(partitioned_input)
AddInput(partitioned_input) ==
    /\ job = <<>>
    /\ Len(partitioned_inputs) < MaxInputs
    /\ Len(nodes) < MaxNodes
    /\ LET r == add_input(num_partitions, partitioned_inputs, partitioned_input)
       IN  /\ num_partitions' = r.num_partitions
           /\ partitioned_inputs' = r.partitioned_inputs
           /\ nodes' = IF r.err = "none"
                       THEN Append(nodes, [kind |-> "Input", index |-> r.index,
                                           func |-> "", inputs |-> <<>>])
                       ELSE nodes
           /\ daglast' = [NoDagOp EXCEPT !.op = "add_input", !.err = r.err,
                                         !.arglen = Len(partitioned_input),
                                         !.prev_num = num_partitions,
                                         !.prev_inputs = partitioned_inputs,
                                         !.prev_calls = ncalls]
    /\ UNCHANGED <<job, ncalls>>
    /\ UNCHANGED <<arrvars, zvars>>

\* dag.transform(func, inputs)
Transform(func, inputs) ==
    /\ job = <<>>
    /\ Len(nodes) < MaxNodes
    /\ IF Len(inputs) > 0
       THEN /\ nodes' = Append(nodes, [kind |-> "LazyVal", index |-> -1,
                                       func |-> func, inputs |-> inputs])
            /\ daglast' = [NoDagOp EXCEPT !.op = "transform"]
       ELSE /\ nodes' = nodes
            /\ daglast' = [NoDagOp EXCEPT !.op = "transform",
                                          !.err = "AssertionError"]
    /\ UNCHANGED <<num_partitions, partitioned_inputs, job, ncalls>>
    /\ UNCHANGED <<arrvars, zvars>>

\* dag.compute(output): one executor.map call over the zipped inputs
Compute(output) ==
    /\ job = <<>>
    /\ ncalls < MaxCalls
    /\ job' = <<[output |-> output,
                 tasks |-> get_zipped_inputs(partitioned_inputs),
                 done |-> List([i \in 1..Len(get_zipped_inputs(partitioned_inputs))
                                  |-> <<>>]),
                 calls |-> List([i \in 1..Len(get_zipped_inputs(partitioned_inputs))
                                   |-> <<>>])]>>
    /\ ncalls' = ncalls + 1
    /\ daglast' = [NoDagOp EXCEPT !.op = "map", !.output = output]
    /\ UNCHANGED <<num_partitions, partitioned_inputs, nodes>>
    /\ UNCHANGED <<arrvars, zvars>>

\* the executor runs output.compute on one of the tuples, in any order
RunTask(i) ==
    /\ job # <<>>
    /\ i \in 1..Len(job[1].tasks)
    /\ job[1].done[i] = <<>>
    /\ job' = <<[job[1] EXCEPT
                    !.done[i] =
                        <<NodeCompute(nodes, job[1].output, job[1].tasks[i])>>,
                    !.calls[i] =
                        List([t \in 1..Len(nodes) |->
                                NodeCalls(nodes, job[1].output, t)])]>>
    /\ UNCHANGED <<num_partitions, partitioned_inputs, nodes, ncalls, daglast>>
    /\ UNCHANGED <<arrvars, zvars>>

\* executor.map returns the results in the order of the tuples
Return ==
    /\ job # <<>>
    /\ \A i \in 1..Len(job[1].tasks) : job[1].done[i] # <<>>
    /\ daglast' = [NoDagOp EXCEPT !.op = "compute", !.output = job[1].output,
                      !.results = List([i \in 1..Len(job[1].done) |->
                                           job[1].done[i][1]]),
                      !.calls = job[1].calls]
    /\ job' = <<>>
    /\ UNCHANGED <<num_partitions, partitioned_inputs, nodes, ncalls>>
    /\ UNCHANGED <<arrvars, zvars>>

Funcs == {"inc", "sub"}

NextDag ==
    \/ \E n \in 0..MaxParts :
          AddInput(Collection(Len(partitioned_inputs), n))
    \/ \E func \in Funcs :
          \E inputs \in [1..Arity(func) -> 1..Len(nodes)] \cup {<<>>} :
              Transform(func, List(inputs))
    \/ \E output \in 1..Len(nodes) : Compute(output)
    \/ \E i \in 1..MaxParts : RunTask(i)
    \/ Return

InitIdleArr ==
    /\ x = <<>>
    /\ heap = [o \in ObjIds |-> <<>>]
    /\ xd = "none"
    /\ alias = "none"
    /\ lastop = NoOp
    /\ nops = 0

\* ----------------------------------------------------------- specifications
\* the array under repartitioning, row selection and axis-0 reductions
InitAll == Init /\ InitDag /\ InitZarr

Spec == InitAll /\ [][Next]_vars

\* the array under in-place and copying elementwise operations
InitAllInplace == InitInplace /\ InitDag /\ InitZarr

SpecInplace == InitAllInplace /\ [][NextInplace]_vars

\* a DAG being built and computed
InitAllDag == InitDag /\ InitIdleArr /\ InitZarr

SpecDag == InitAllDag /\ [][NextDag]_vars

\* all the array operations on one array
InitAllOps == Init /\ InitDag /\ InitZarr

SpecOps == InitAllOps /\ [][NextOps]_vars

\* int64 arrays of cells above 2^53, repartitioned
InitAllInt64 == InitInt64 /\ InitDag /\ InitZarr

SpecInt64 == InitAllInt64 /\ [][NextInt64]_vars

\* the array written to a chunked store, after an optional repartitioning
InitAllZarr == Init /\ InitDag /\ InitZarr

SpecZarr == InitAllZarr /\ [][NextZarr]_vars

\* ------------------------------------------------------------------ claims
Prev == lastop.prev[1]

\* the rows of the 0-based global range lo .. hi-1 that a mask selects
Selected(mask, lo, hi) == {g \in lo..(hi - 1) : mask[g + 1]}

\* C1: repartitioning to row chunks of c leaves the materialized array
\* unchanged (it is still x): the result has ceil(T/c) partitions, partition
\* r holds exactly rows r*c .. r*c+c-1 of the array, in order.
C1_RepartitionRoundTrip ==
    lastop.op = "repartition" =>
        LET c == lastop.c
            T == Prev.shape[1]
        IN  /\ asndarray(Self) = asndarray(Prev)
            /\ asndarray(Self) = x
            /\ Len(Self.rdd) * c >= T /\ (Len(Self.rdd) - 1) * c < T
            /\ \A r \in 1..Len(Self.rdd) :
                   Self.rdd[r] = PySlice(x, (r - 1) * c, r * c)
            /\ Self.chunks = <<c, Prev.shape[2]>>

\* the entries <<old partition, position>> of a boundaries result
EntriesOf(R) == UNION {{<<i, m>> : m \in 1..Len(R[i])} : i \in 1..Len(R)}

\* C2: the boundaries computed for a repartitioning to chunks of c rows:
\* total_rows is T, new_num_partitions is ceil(T/c), every old partition
\* has its sequence of entries, and every global row g lies in exactly one
\* entry, which is an entry of the old partition holding g and names new
\* chunk g // c; the entry lengths sum to T.
C2_BoundariesCoverRows ==
    lastop.op = "repartition" =>
        LET c == lastop.c
            counts == Prev.partition_row_counts
            T == SumSeq(counts)
            b == partition_boundaries(Prev, <<c, Prev.shape[2]>>)
            R == b.partition_row_ranges
            lo(e) == R[e[1]][e[2]].new_index * c + R[e[1]][e[2]].start
            hi(e) == R[e[1]][e[2]].new_index * c + R[e[1]][e[2]].end
        IN  /\ b.total_rows = T
            /\ b.new_num_partitions * c >= T
            /\ (b.new_num_partitions - 1) * c < T
            /\ Len(R) = Len(counts)
            /\ \A g \in 0..(T - 1) :
                 /\ Cardinality({e \in EntriesOf(R) : lo(e) <= g /\ g < hi(e)}) = 1
                 /\ \A e \in EntriesOf(R) :
                      (lo(e) <= g /\ g < hi(e)) =>
                         /\ R[e[1]][e[2]].new_index = g \div c
                         /\ OffsetOf(counts, e[1]) <= g
                         /\ g < OffsetOf(counts, e[1]) + counts[e[1]]
            /\ \A e \in EntriesOf(R) : lo(e) < hi(e)
            /\ Cardinality(UNION {lo(e)..(hi(e) - 1) : e \in EntriesOf(R)}) = T

\* C2 witness: the boundaries of a layout with an empty partition, where
\* one new chunk is fed by two old partitions
C2_Witness ==
    /\ lastop.op = "repartition"
    /\ \E i \in 1..Len(Prev.partition_row_counts) :
           Prev.partition_row_counts[i] = 0
    /\ LET R == partition_boundaries(Prev, <<lastop.c, Prev.shape[2]>>)
                    .partition_row_ranges
       IN  \E e1 \in EntriesOf(R), e2 \in EntriesOf(R) :
               /\ e1[1] # e2[1]
               /\ R[e1[1]][e1[2]].new_index = R[e2[1]][e2[2]].new_index

C8_BooleanRowSelection ==
    (lastop.op \in {"row_subset", "bool_index"} /\ lastop.item.kind = "bool"
        /\ Len(lastop.item.v) = Prev.shape[1]) =>
        LET mask == lastop.item.v
            old == Prev.partition_row_counts
        IN  /\ lastop.err = "none"
            /\ Len(Self.rdd) = Len(Prev.rdd)
            /\ Len(Self.partition_row_counts) = Len(old)
            /\ \A i \in 1..Len(old) :
                 LET sel == Selected(mask, OffsetOf(old, i),
                                     OffsetOf(old, i) + old[i])
                 IN  /\ Self.partition_row_counts[i] = Cardinality(sel)
                     /\ Len(Self.rdd[i]) = Cardinality(sel)
                     /\ \A q \in 1..Len(Self.rdd[i]) :
                          Self.rdd[i][q] =
                              asndarray(Prev)[SortedSeq(sel)[q] + 1]
            /\ Self.shape = [Prev.shape EXCEPT
                                 ![1] = Cardinality(Selected(mask, 0, Len(mask)))]
            /\ asndarray(Self) = NpIndexRows(asndarray(Prev), mask, "bool")
            /\ asndarray(Self) = x

\* C8 witness: a mask that selects nothing from one partition of several
C8_Witness ==
    /\ lastop.op = "row_subset"
    /\ lastop.item.kind = "bool"
    /\ lastop.err = "none"
    /\ Prev.partition_row_counts = <<2, 1>>
    /\ Self.partition_row_counts = <<1, 0>>
    /\ Len(Self.rdd) = 2

\* C9: sum(axis=0) and mean(axis=0) are the column sums and the column
\* means (column sum over the total row count) of the whole array, as a 1D
\* array of ncols entries in a single partition.
C9_AxisZeroReductions ==
    (lastop.op \in {"sum", "mean"} /\ Len(Prev.shape) = 2) =>
        LET r == lastop.ret[1]
            ncols == Prev.shape[2]
            colsum(j) == SumSeq(List([i \in 1..Len(x) |-> x[i][j]]))
        IN  /\ r.shape = <<ncols>>
            /\ r.partition_row_counts = <<ncols>>
            /\ Len(r.rdd) = 1
            /\ Len(r.rdd[1]) = ncols
            /\ \A j \in 1..ncols :
                 r.rdd[1][j] = IF lastop.op = "sum" THEN colsum(j)
                               ELSE Div(colsum(j), Len(x))

\* C9 witness: the mean of an array of three rows in partitions of 2 and 1
C9_Witness ==
    /\ lastop.op = "mean"
    /\ Len(Prev.shape) = 2
    /\ Prev.partition_row_counts = <<2, 1>>
    /\ Len(x) = 3

\* C5: an in-place operation (xd += 1, astype(copy=False)) returns the
\* object it was called on, and a handle taken on that object before sees
\* the new values and dtype; a copying operation returns another object and
\* leaves the object it was called on, and so its aliases, as they were.
C5_InPlaceIdentity ==
    (lastop.op \in {"add1", "astype"}) =>
        /\ asndarray(Self) = x
        /\ Self.dtype = lastop.dtype
        /\ ~lastop.copy =>
              /\ xd = lastop.prev_xd
              /\ alias = lastop.prev_xd =>
                    /\ asndarray(heap[alias][1]) = x
                    /\ heap[alias][1].dtype = lastop.dtype
        /\ lastop.copy =>
              /\ xd # lastop.prev_xd
              /\ alias = lastop.prev_xd => heap[alias][1] = Prev

\* C5 witness: astype(bool, copy=False) changed the values an alias sees
C5_Witness ==
    /\ lastop.op = "astype"
    /\ ~lastop.copy
    /\ lastop.dtype = "bool"
    /\ alias = xd
    /\ asndarray(heap[alias][1]) # asndarray(Prev)

\* direct evaluation of node n for partition i: an Input is partition i of
\* the input it names, a LazyVal its function of its parents' values
RECURSIVE Direct(_, _, _, _)
Direct(ns, inputs, n, i) ==
    IF ns[n].kind = "Input" THEN inputs[ns[n].index + 1][i]
    ELSE IF ns[n].func = "inc" THEN Direct(ns, inputs, ns[n].inputs[1], i) + 1
    ELSE Direct(ns, inputs, ns[n].inputs[1], i)
             - Direct(ns, inputs, ns[n].inputs[2], i)

\* C4: compute(output) returns one result per partition, in partition
\* order, and result i is the output's function chain evaluated on
\* partition i of every input.
C4_ComputePerPartition ==
    daglast.op = "compute" =>
        /\ Len(daglast.results) = num_partitions
        /\ \A k \in 1..Len(partitioned_inputs) :
               Len(partitioned_inputs[k]) = num_partitions
        /\ \A i \in 1..Len(daglast.results) :
               daglast.results[i] =
                   Direct(nodes, partitioned_inputs, daglast.output, i)

\* C4 witness: a two-argument node over two different inputs of two
\* partitions each was computed
C4_Witness ==
    /\ daglast.op = "compute"
    /\ num_partitions = 2
    /\ Len(partitioned_inputs) = 2
    /\ nodes[daglast.output].func = "sub"
    /\ nodes[nodes[daglast.output].inputs[1]].index = 1
    /\ nodes[nodes[daglast.output].inputs[2]].index = 0

\* C6: all registered inputs have num_partitions partitions; add_input
\* fails with an assertion error exactly when its collection is empty or
\* has another partition count, and then num_partitions and
\* partitioned_inputs are as before and the executor was not called.
C6_InputsSamePartitionCount ==
    /\ \A k \in 1..Len(partitioned_inputs) :
           Len(partitioned_inputs[k]) = num_partitions
    /\ daglast.op = "add_input" =>
          /\ daglast.err = "AssertionError" <=>
                \/ daglast.arglen = 0
                \/ daglast.prev_num # 0 /\ daglast.arglen # daglast.prev_num
          /\ daglast.err = "AssertionError" =>
                /\ num_partitions = daglast.prev_num
                /\ partitioned_inputs = daglast.prev_inputs
                /\ ncalls = daglast.prev_calls
                /\ job = <<>>

\* C6 witness: a second input with another partition count was refused
C6_Witness ==
    /\ daglast.op = "add_input"
    /\ daglast.err = "AssertionError"
    /\ daglast.arglen > 0
    /\ daglast.prev_num > 0
    /\ daglast.arglen # daglast.prev_num

\* the array stacked vertically n times
RECURSIVE VStack(_, _)
VStack(arr, n) == IF n = 0 THEN <<>> ELSE arr \o VStack(arr, n - 1)

\* the store after every (partition, replica) write of to_zarr has run, in
\* whatever order and however often: no write failed, the store has
\* ncopies * rows rows, it holds the array stacked ncopies times, and
\* replica k of partition i is at chunk index k * chunk count + i
StoreIsStacked ==
    LET z == zstore[1]
        n == zjob.ncopies
        c == lastop.c
        count == Len(Prev.rdd)
    IN  /\ zjob.err = "none"
        /\ z.shape = <<n * Len(x), Prev.shape[2]>>
        /\ z.rows = VStack(x, n)
        /\ \A i \in 1..count, k \in 0..(n - 1) :
               PySlice(z.rows, (k * count + i - 1) * c,
                       (k * count + i - 1) * c + Len(Prev.rdd[i])) = Prev.rdd[i]

\* C10 as stated: for every array, row-chunk size and ncopies
C10_Original ==
    (lastop.op = "to_zarr" /\ AllWritten) => StoreIsStacked

\* C10, amended: when the row-chunk size divides the number of rows, or
\* ncopies is 1, the store is the array stacked ncopies times, under every
\* order and repetition of the (partition, replica) writes.
C10_StackedWhenChunksAlign ==
    (lastop.op = "to_zarr" /\ AllWritten
        /\ (Len(x) % lastop.c = 0 \/ zjob.ncopies = 1)) => StoreIsStacked

\* C10 witness: two copies of an array of two chunks, all four writes done
C10_Witness ==
    /\ lastop.op = "to_zarr"
    /\ AllWritten
    /\ zjob.ncopies = 2
    /\ Len(Prev.rdd) = 2
    /\ Len(x) % lastop.c = 0

\* the operand of the last xd + other
Other == lastop.other[1]

\* C11: xd + other for two distributed arrays of the same shape.  With
\* equal partition_row_counts the partitions are added pairwise, nothing is
\* materialized and the layout is kept; with different layouts and a
\* single-column operand the operand is materialized, cut along xd's layout
\* and added; in every other case NotImplemented is returned: nothing is
\* raised, nothing is dispatched and xd is as it was.
C11_SameShapeDispatch ==
    lastop.op = "add_arrays" =>
        IF Prev.partition_row_counts = Other.partition_row_counts
        THEN /\ lastop.err = "none" /\ ~lastop.notimplemented
             /\ ~lastop.materialized
             /\ Self.partition_row_counts = Prev.partition_row_counts
             /\ \A i \in 1..Len(Prev.rdd) :
                    Self.rdd[i] = np_add(Prev.rdd[i], Other.rdd[i],
                                         Len(Prev.shape))
             /\ asndarray(Self) = x
        ELSE IF Len(Other.shape) = 2 /\ Other.shape[2] = 1
        THEN /\ lastop.err = "none" /\ ~lastop.notimplemented
             /\ lastop.materialized
             /\ Self.partition_row_counts = Prev.partition_row_counts
             /\ asndarray(Self) = np_add(asndarray(Prev), asndarray(Other), 2)
             /\ asndarray(Self) = x
        ELSE /\ lastop.notimplemented
             /\ lastop.err = "none"
             /\ lastop.ndispatch = 0
             /\ Self = Prev

\* the columns numpy's x[:, subset] has: one per index, or one per True
NumSelected(item) ==
    IF item.kind = "bool"
    THEN Cardinality({j \in 1..Len(item.v) : item.v[j]})
    ELSE Len(item.v)

\* C12: xd[:, subset] for a boolean mask or an integer index array: every
\* partition is the old partition with the selected columns, the number
\* of partitions and partition_row_counts are unchanged, and the shape is
\* (rows, number of selected columns), as numpy's is.
C12_ColumnSelection ==
    lastop.op = "column_subset" =>
        /\ Len(Self.rdd) = Len(Prev.rdd)
        /\ Self.partition_row_counts = Prev.partition_row_counts
        /\ \A i \in 1..Len(Prev.rdd) :
               /\ Len(Self.rdd[i]) = Len(Prev.rdd[i])
               /\ \A r \in 1..Len(Prev.rdd[i]) :
                      Self.rdd[i][r] =
                          NpIndexRows(Prev.rdd[i][r], lastop.item.v,
                                      lastop.item.kind)
        /\ Self.shape = <<Prev.shape[1], NumSelected(lastop.item)>>

\* an array whose partition_row_counts describe its partitions
LayoutOk(a) ==
    /\ Len(a.shape) >= 1
    /\ SumSeq(a.partition_row_counts) = a.shape[1]
    /\ Len(a.partition_row_counts) = Len(a.rdd)
    /\ \A i \in 1..Len(a.rdd) : Len(a.rdd[i]) = a.partition_row_counts[i]

\* C13: after any sequence of construction, elementwise operations,
\* axis-0 and axis-1 reductions, boolean row selection, column selection
\* and repartitioning, the array xd is bound to and the array the last
\* operation returned have sum(partition_row_counts) = shape[0], as many
\* partition_row_counts as partitions, and partition_row_counts[i] rows
\* in partition i.
C13_LayoutInvariant ==
    /\ LayoutOk(Self)
    /\ \A k \in 1..Len(lastop.ret) : LayoutOk(lastop.ret[k])

\* the nodes of the graph of node n: n and the nodes of its inputs' graphs
RECURSIVE GraphOf(_, _)
GraphOf(ns, n) ==
    {n} \cup (IF ns[n].kind = "Input" THEN {}
              ELSE UNION {GraphOf(ns, ns[n].inputs[q]) :
                             q \in 1..Len(ns[n].inputs)})

\* the uses of node t as an input of the nodes of output's graph
ParentEdges(ns, output, t) ==
    {<<n, q>> \in GraphOf(ns, output) \X (1..Arity("sub")) :
        /\ ns[n].kind = "LazyVal"
        /\ q <= Len(ns[n].inputs)
        /\ ns[n].inputs[q] = t}

\* C14 as stated: when compute(output) has returned, every LazyVal node
\* that the output's graph uses as an input more than once (a shared node)
\* has had its compute, and so its recorded function, run exactly once for
\* every partition
C14_Original ==
    daglast.op = "compute" =>
        \A i \in 1..Len(daglast.calls), t \in 1..Len(nodes) :
            (nodes[t].kind = "LazyVal"
                /\ Cardinality(ParentEdges(nodes, daglast.output, t)) > 1)
            => daglast.calls[i][t] = 1

\* the number of parent paths from output down to node t: one for the
\* output itself, and for any other node the paths to its users, counted
\* once for every use
RECURSIVE ParentPaths(_, _, _)
ParentPaths(ns, output, t) ==
    IF t = output THEN 1
    ELSE LET edges == ParentEdges(ns, output, t)
         IN  SumSeq(List([n \in 1..Len(ns) |->
                 Cardinality({e \in edges : e[1] = n})
                     * (IF \E e \in edges : e[1] = n
                        THEN ParentPaths(ns, output, n) ELSE 0)]))

\* C14, amended: when compute(output) has returned, for every partition
\* the output's compute has run exactly once, and the compute of every
\* node of its graph, and so a LazyVal's recorded function, has run once
\* for every parent path from the output to the node: exactly once for a
\* node reached through one path, and again for every further path to a
\* shared node.
C14_OncePerParentPath ==
    daglast.op = "compute" =>
        /\ Len(daglast.calls) = Len(daglast.results)
        /\ \A i \in 1..Len(daglast.calls) :
               /\ daglast.calls[i][daglast.output] = 1
               /\ \A t \in 1..Len(nodes) :
                      daglast.calls[i][t] =
                          IF t \in GraphOf(nodes, daglast.output)
                          THEN ParentPaths(nodes, daglast.output, t)
                          ELSE 0

\* C14 witness: compute has returned for two partitions and an output
\* that uses one LazyVal node twice, whose function ran twice for each
C14_Witness ==
    /\ daglast.op = "compute"
    /\ Len(daglast.calls) = 2
    /\ \E t \in 1..Len(nodes) :
          /\ nodes[t].kind = "LazyVal"
          /\ Cardinality(ParentEdges(nodes, daglast.output, t)) = 2
          /\ daglast.calls[1][t] = 2
          /\ daglast.calls[2][t] = 2

====
